---- MODULE Spec2Model ----
(***************************************************************************)
(* Model of the polling / detection / dispatch core of bluesky-notify:     *)
(*   core/notifier.py  BlueSkyNotifier.run, _check_new_posts,              *)
(*                     _send_notifications, add_account, remove_account    *)
(*   core/database.py  add_monitored_account, remove_monitored_account,    *)
(*                     mark_post_notified                                  *)
(* notifier.py reads and writes account.last_check as a persisted          *)
(* attribute of the account row; the model keeps it as a field of the row. *)
(***************************************************************************)
EXTENDS Integers, Sequences, FiniteSets, TLC

\* ------------------------------------------------------------------ bounds
MaxTime == 2        \* the clock runs over 0..MaxTime
MaxFeed == 2        \* longest feed returned by one getAuthorFeed call
MaxId == 3          \* highest row id handed out in monitored_accounts
MaxAnswers == 2     \* attempts of one HTTP call for which the remote's answer is drawn

\* ------------------------------------------------------- values and inputs
NULL == -1          \* a last_check that was never set

Times == 0..MaxTime

\* Feed items as returned in data["feed"]: post.uri and post.indexedAt.
\* indexedAt is an ISO timestamp: a wall-clock reading with a UTC offset, or
\* a string fromisoformat() rejects (ok = FALSE).  A uri of "" is a missing uri.
P1   == [uri |-> "at://a/app.bsky.feed.post/p1", ok |-> TRUE,  wall |-> 1, off |-> 0]
P2   == [uri |-> "at://a/app.bsky.feed.post/p2", ok |-> TRUE,  wall |-> 3, off |-> 1]
PBadTime == [uri |-> "at://a/app.bsky.feed.post/p3", ok |-> FALSE, wall |-> 0, off |-> 0]
PBadUri  == [uri |-> "at://a/p4",                    ok |-> TRUE,  wall |-> 2, off |-> 0]
PNoUri   == [uri |-> "",                             ok |-> TRUE,  wall |-> 2, off |-> 0]

Items == {P1, P2, PBadTime, PBadUri, PNoUri}

SeqsUpTo(S, n) == UNION {[1..m -> S] : m \in 0..n}

\* every list get_recent_posts can return (<<>> also stands for a failed request)
Feeds == SeqsUpTo(Items, MaxFeed)

\* number of "/"-separated parts of a uri (post_uri.split("/"))
UriParts(uri) ==
    IF uri = "at://a/p4" THEN 4 ELSE IF uri = "" THEN 1 ELSE 5

\* the remote profile service: identifier typed by the user -> profile
\* (handles resolve case-insensitively; the profile carries the stored spelling)
DIDs == {"did:1", "did:2"}
Identifiers == {"alice.example", "Alice.Example"}
Profile(identifier) == [did |-> "did:1", handle |-> "alice.example"]

Channels == {"desktop", "email", "browser"}

\* uris that can appear in a ledger row or a notification
Uris == {it.uri : it \in Items} \ {""}

Pref(t, e) == [type |-> t, enabled |-> e]

\* key of a notified_posts row
Pair(d, p) == [account_did |-> d, post_id |-> p]
Pairs == {Pair(d, p) : d \in DIDs, p \in Uris}

\* preference lists a caller of add_account supplies (<<>> is "none supplied")
PrefLists == { <<>>,
               <<Pref("desktop", TRUE), Pref("email", TRUE)>>,
               <<Pref("desktop", FALSE), Pref("email", TRUE)>> }

NoAccount == [id |-> 0, did |-> "", handle |-> "", prefs |-> <<>>, loaded |-> FALSE]

Range(s) == {s[i] : i \in DOMAIN s}

Max(S) == CHOOSE x \in S : \A y \in S : y <= x

\* ------------------------------------------------------------------- state
VARIABLES
    now,        \* datetime.now(timezone.utc), in ticks
    env,        \* process environment: whether DOCKER_CONTAINER is set
    accounts,   \* table monitored_accounts: row id -> row
    ledger,     \* table notified_posts: (account_did, post_id) -> number of rows
    running,    \* BlueSkyNotifier._running
    pc,         \* position of run()
    queue,      \* ids of run()'s `accounts` list still to be processed
    new_posts,  \* list returned by _check_new_posts for the current account
    k,          \* index of the post _send_notifications is at
    acct,       \* the account object _send_notifications holds
    expired,    \* TRUE when a commit expired acct's loaded attributes
    marking,    \* the mark_post_notified calls in progress, one per execution context
    \* history variables (not program state)
    delivered,  \* (did, uri, channel) -> successful sends in the running iteration (2 = more than one)
    cyc,        \* the ledger as it was when the running iteration started
    disp,       \* the running _send_notifications call: pairs dispatched / sent
    chk,        \* the last _check_new_posts call: inputs it saw
    meta,       \* row id -> [added_at, checked]
    retry,      \* pairs the last _send_notifications call could send on no enabled channel
    lost,       \* posts pending at the last crash, with the persisted last_check
    lastMark,   \* outcome of the last mark_post_notified call
    everSent,   \* pairs for which some channel send has ever returned True
    op,         \* the last account-store request: what it was and what it found
    call        \* the last call into the remote API or the dispatcher: inputs and result

prog == <<now, env, accounts, ledger, running, pc, queue, new_posts, k, acct, expired,
         marking>>
hist == <<delivered, cyc, disp, chk, meta, retry, lost, lastMark, everSent, op, call>>
vars == <<prog, hist>>

NoCheck == [id |-> 0, did |-> "", fetched |-> <<>>, lcBefore |-> NULL,
            first |-> FALSE, added_at |-> NULL, retryDue |-> {}, found |-> FALSE]

NoCycle == {}

\* execution contexts that call into the store, and a context with no call in progress
Contexts == {"loop", "other"}
NoMark == [pc |-> "idle", pair |-> Pair("", ""), existing |-> FALSE, result |-> "none"]

NoDispatch == [tried |-> {}, sentOk |-> {}]

\* no call made yet
NoCall == [fn |-> "none"]

NoOp == [name |-> "none", id |-> 0, ok |-> FALSE, during |-> FALSE,
         handle |-> "", prefs |-> <<>>, supplied |-> <<>>]


\* ---------------------------------------------------------- pure functions

\* notifier.py 309-316: fromisoformat(...).astimezone(timezone.utc).replace(tzinfo=None)
post_time_naive(post) == post.wall
post_time_utc(post) == post.wall - post.off

\* the instant at which a well-formed item was indexed
IndexedAt(post) == post.wall - post.off

\* notifier.py 300-305 / database.py 203-206: NotifiedPost.query.filter_by(...).first()
existing_notification_unfiltered(rows, did, post_id) == FALSE
existing_notification(rows, did, post_id) == rows[Pair(did, post_id)] > 0

\* notifier.py 286: `if not account.last_check`
first_check_never(last_check) == FALSE
first_check(last_check) == last_check = NULL

\* notifier.py 321: `if post_time_utc > account.last_check`
newer_or_equal(post, last_check) == post_time_utc(post) >= last_check
newer(post, last_check) == post_time_utc(post) > last_check

\* notifier.py 293-330: the body of `for post in posts` for one post
is_new_unstamped(post, did, last_check, rows) ==
    /\ post.uri # ""
    /\ ~existing_notification(rows, did, post.uri)
    /\ post.ok
is_new(post, did, last_check, rows) ==
    /\ post.uri # ""                                   \* 294-296
    /\ ~existing_notification(rows, did, post.uri)     \* 300-306
    /\ post.ok                                         \* 309-311, 327-330
    /\ newer(post, last_check)                         \* 321-325

\* notifier.py 292-330: new_posts, in feed order
RECURSIVE filter_new_prepending(_, _, _, _)
filter_new_prepending(posts, did, last_check, rows) ==
    IF posts = <<>> THEN <<>>
    ELSE LET rest == filter_new_prepending(Tail(posts), did, last_check, rows)
         IN  IF is_new(Head(posts), did, last_check, rows)
             THEN rest \o <<Head(posts)>> ELSE rest
RECURSIVE filter_new(_, _, _, _)
filter_new(posts, did, last_check, rows) ==
    IF posts = <<>> THEN <<>>
    ELSE LET rest == filter_new(Tail(posts), did, last_check, rows)
         IN  IF is_new(Head(posts), did, last_check, rows)
             THEN <<Head(posts)>> \o rest ELSE rest

\* notifier.py 642-654: _format_notification returns None unless the uri
\* splits into exactly five parts
format_ok_unsplit(post) == post.uri # ""
format_ok(post) == post.uri # "" /\ UriParts(post.uri) = 5

\* notifier.py 685-706: the preference loop; the channels whose send returned
\* True, in order.  out[c] is what channel c's own call returns when made.
RECURSIVE send_prefs_until_failure(_, _, _)
send_prefs_until_failure(prefs, e, out) ==
    IF prefs = <<>> THEN <<>>
    ELSE LET pref == Head(prefs)
             rest == send_prefs_until_failure(Tail(prefs), e, out)
         IN  IF ~pref.enabled THEN rest
             ELSE IF pref.type = "desktop" /\ ~e.docker
                  THEN (IF out["desktop"] THEN <<"desktop">> \o rest ELSE <<>>)
             ELSE IF pref.type = "email"
                  THEN (IF out["email"] THEN <<"email">> \o rest ELSE <<>>)
             ELSE rest
RECURSIVE send_prefs(_, _, _)
send_prefs(prefs, e, out) ==
    IF prefs = <<>> THEN <<>>
    ELSE LET pref == Head(prefs)
             rest == send_prefs(Tail(prefs), e, out)
         IN  IF ~pref.enabled THEN rest
             ELSE IF pref.type = "desktop" /\ ~e.docker
                  THEN (IF out["desktop"] THEN <<"desktop">> ELSE <<>>) \o rest
             ELSE IF pref.type = "email"
                  \* 572-624: False also when the Mailgun configuration is incomplete
                  THEN (IF out["email"] THEN <<"email">> ELSE <<>>) \o rest
             ELSE rest

\* notifier.py 709-717: browser broadcast in Docker when desktop is enabled
send_browser_any_preference(prefs, e, out) ==
    IF e.docker THEN (IF out["browser"] THEN <<"browser">> ELSE <<>>) ELSE <<>>
send_browser(prefs, e, out) ==
    IF e.docker /\ (\E i \in DOMAIN prefs : prefs[i].type = "desktop" /\ prefs[i].enabled)
    THEN (IF out["browser"] THEN <<"browser">> ELSE <<>>)
    ELSE <<>>

\* all successful sends of one dispatch (683-717)
sends(prefs, e, out) == send_prefs(prefs, e, out) \o send_browser(prefs, e, out)

\* channels a dispatch with these preferences calls at all
attempted(prefs, e) ==
    {c \in Channels :
        \/ c = "desktop" /\ ~e.docker
              /\ \E i \in DOMAIN prefs : prefs[i].type = "desktop" /\ prefs[i].enabled
        \/ c = "email"
              /\ \E i \in DOMAIN prefs : prefs[i].type = "email" /\ prefs[i].enabled
        \/ c = "browser" /\ e.docker
              /\ \E i \in DOMAIN prefs : prefs[i].type = "desktop" /\ prefs[i].enabled}

\* notifier.py 720: `if notifications_sent:`
mark_always(sent) == TRUE
notifications_sent(sent) == sent # <<>>

\* database.py 191-224
mark_post_notified_unchecked(rows, did, post_id) ==
    [rows EXCEPT ![Pair(did, post_id)] = @ + 1]
mark_post_notified(rows, did, post_id) ==
    IF existing_notification(rows, did, post_id) THEN rows           \* 203-209
    ELSE [rows EXCEPT ![Pair(did, post_id)] = @ + 1]                 \* 212-217

\* table helpers
Insert(rows, id, row) == [i \in DOMAIN rows \cup {id} |-> IF i = id THEN row ELSE rows[i]]
Delete_soft(rows, id) == [rows EXCEPT ![id].is_active = FALSE]
Delete(rows, id) == [i \in DOMAIN rows \ {id} |-> rows[i]]
EmptyTable == [i \in {} |-> 0]

\* database.py 134-139: defaults when no preferences are supplied
default_prefs_all_enabled(prefs) ==
    IF prefs = <<>> THEN <<Pref("desktop", TRUE), Pref("email", TRUE)>> ELSE prefs
default_prefs(prefs) ==
    IF prefs = <<>> THEN <<Pref("desktop", TRUE), Pref("email", FALSE)>> ELSE prefs

\* row id SQLite gives the next inserted row (INTEGER PRIMARY KEY: max rowid + 1)
next_id(rows) == IF DOMAIN rows = {} THEN 1 ELSE Max(DOMAIN rows) + 1

\* MonitoredAccount.query.filter_by(...).first(): the lowest matching row id, 0 if none
first_by_did(rows, did) ==
    LET m == {i \in DOMAIN rows : rows[i].did = did}
    IN  IF m = {} THEN 0 ELSE CHOOSE i \in m : \A j \in m : i <= j
first_by_handle(rows, handle) ==
    LET m == {i \in DOMAIN rows : rows[i].handle = handle}
    IN  IF m = {} THEN 0 ELSE CHOOSE i \in m : \A j \in m : i <= j

\* database.py 110-158 add_monitored_account on the table `rows`
add_monitored_account(rows, profile, prefs) ==
    IF first_by_did(rows, profile.did) # 0
    THEN [ok |-> FALSE, id |-> 0, rows |-> rows]                     \* 122-124
    ELSE [ok |-> TRUE, id |-> next_id(rows),
          rows |-> Insert(rows, next_id(rows),
                          [did |-> profile.did, handle |-> profile.handle,
                           is_active |-> TRUE, last_check |-> NULL,
                           prefs |-> default_prefs(prefs)])]         \* 127-151

\* notifier.py 427-435: the row found under the handle as typed gets last_check
set_initial_last_check(rows, handle, t) ==
    IF first_by_handle(rows, handle) # 0
    THEN [rows EXCEPT ![first_by_handle(rows, handle)].last_check = t]
    ELSE rows

\* run() 512: MonitoredAccount.query.filter_by(is_active=True).all(), by row id
RECURSIVE ascending(_)
ascending(S) ==
    IF S = {} THEN <<>>
    ELSE LET m == CHOOSE x \in S : \A y \in S : x <= y
         IN  <<m>> \o ascending(S \ {m})
active_accounts_unfiltered(rows) == ascending(DOMAIN rows)
active_accounts(rows) == ascending({i \in DOMAIN rows : rows[i].is_active})

Bump(f, d, p, cs) ==
    [x \in DOMAIN f |->
        IF x[1] = d /\ x[2] = p /\ (\E i \in DOMAIN cs : cs[i] = x[3])
        THEN (IF f[x] + Cardinality({i \in DOMAIN cs : cs[i] = x[3]}) >= 2 THEN 2
              ELSE f[x] + Cardinality({i \in DOMAIN cs : cs[i] = x[3]}))
        ELSE f[x]]



\* -------------------------------------------------------------------- Init
Init ==
    /\ now = 0
    /\ env \in [docker : BOOLEAN]
    /\ accounts = EmptyTable
    /\ ledger = [x \in Pairs |-> 0]
    /\ running = FALSE
    /\ pc = "stopped"
    /\ queue = <<>>
    /\ new_posts = <<>>
    /\ k = 1
    /\ acct = NoAccount
    /\ expired = FALSE
    /\ marking = [c \in Contexts |-> NoMark]
    /\ delivered = [x \in DIDs \X Uris \X Channels |-> 0]
    /\ cyc = NoCycle
    /\ disp = NoDispatch
    /\ chk = NoCheck
    /\ meta = EmptyTable
    /\ retry = {}
    /\ lost = {}
    /\ lastMark = "none"
    /\ everSent = {}
    /\ op = NoOp
    /\ call = NoCall

\* ------------------------------------------------------- the clock advances
Tick ==
    /\ now < MaxTime
    /\ now' = now + 1
    /\ UNCHANGED <<env, marking, accounts, ledger, running, pc, queue, new_posts, k, acct, expired>>
    /\ UNCHANGED hist

\* --------------------------------------------- request-handling operations
\* notifier.py 403-443 add_account, with database.py 110-158 add_monitored_account.
\* A failed profile lookup (419-420) and an existing did (122-124) return an
\* error and write nothing.
add_account(identifier, prefs) ==
    LET res   == add_monitored_account(accounts, Profile(identifier), prefs)
        \* 427: looked up by the handle as typed, not by the stored handle
        found == first_by_handle(res.rows, identifier)
    IN  /\ res.ok
        /\ accounts' = set_initial_last_check(res.rows, identifier, now)
        /\ meta' = Insert(meta, res.id, [added_at |-> IF found = res.id THEN now ELSE NULL,
                                          checked |-> FALSE])
        /\ UNCHANGED <<now, env, marking, ledger, running, pc, queue, new_posts, k, acct, expired>>
        /\ UNCHANGED <<delivered, cyc, disp, chk, retry, lost, lastMark, everSent>>

AddAccount ==
    /\ \E identifier \in Identifiers, prefs \in PrefLists : add_account(identifier, prefs)
    /\ UNCHANGED <<op, call>>

\* notifier.py 445-469 remove_account, with database.py 160-189.
\* The account row goes, its preferences with it (cascade); notified_posts is
\* not touched.  An unknown identifier returns an error and writes nothing.
remove_account_cascading(identifier, by_did) ==
    LET id == IF by_did THEN first_by_did(accounts, identifier)
              ELSE first_by_handle(accounts, identifier)
    IN  /\ id # 0
        /\ accounts' = Delete(accounts, id)
        /\ meta' = Delete(meta, id)
        /\ retry' = {}
        /\ ledger' = [x \in Pairs |-> IF x.account_did = accounts[id].did THEN 0 ELSE ledger[x]]
        /\ UNCHANGED <<now, env, marking, running, pc, queue, new_posts, k, acct, expired>>
        /\ UNCHANGED <<delivered, cyc, disp, chk, lost, lastMark, everSent>>
remove_account(identifier, by_did) ==
    LET id == IF by_did THEN first_by_did(accounts, identifier)
              ELSE first_by_handle(accounts, identifier)
    IN  /\ id # 0
        /\ accounts' = Delete(accounts, id)
        /\ meta' = Delete(meta, id)
        /\ retry' = {}
        /\ UNCHANGED <<now, env, marking, ledger, running, pc, queue, new_posts, k, acct, expired>>
        /\ UNCHANGED <<delivered, cyc, disp, chk, lost, lastMark, everSent>>

RemoveAccount ==
    /\ \/ \E did \in DIDs : remove_account(did, TRUE)
       \/ \E handle \in Identifiers : remove_account(handle, FALSE)
    /\ UNCHANGED <<op, call>>


\* ------------------------------------------------------------ the poll loop
\* notifier.py 502-508: run() starts (also after a crash, when the service is restarted)
Run ==
    /\ pc = "stopped"
    /\ running' = TRUE
    /\ pc' = "top"
    /\ lost' = {}
    /\ UNCHANGED <<now, env, marking, accounts, ledger, queue, new_posts, k, acct, expired>>
    /\ UNCHANGED <<delivered, cyc, disp, chk, meta, retry, lastMark, everSent, op, call>>

\* notifier.py 509-512: `while self._running`, then the active accounts are loaded
LoopTop ==
    /\ pc = "top"
    /\ running
    /\ queue' = active_accounts(accounts)
    /\ pc' = IF queue' = <<>> THEN "sleep" ELSE "check"
    /\ cyc' = IF queue' = <<>> THEN NoCycle ELSE {x \in Pairs : ledger[x] > 0}
    /\ op' = [op EXCEPT !.during = FALSE]
    /\ UNCHANGED call
    /\ UNCHANGED delivered
    /\ UNCHANGED <<now, env, marking, accounts, ledger, running, new_posts, k, acct, expired>>
    /\ UNCHANGED <<disp, chk, meta, retry, lost, lastMark, everSent>>

\* notifier.py 261-342 _check_new_posts for the head of the queue (run() 514).
\* The feed is fetched (271) and filtered; last_check is committed (288 / 334)
\* before the list is returned.
check_new_posts(posts) ==
    /\ pc = "check"
    /\  LET id == Head(queue) IN
         IF id \notin DOMAIN accounts
         THEN \* 277-280: the row is gone and `account` is None; building the
              \* log line raises AttributeError at 279 and again in the handler
              \* at 340, so the call raises to run(), which ends the iteration
              \* (519-520) with the accounts still in the list not reached
              /\ new_posts' = <<>>
              /\ chk' = NoCheck
              /\ retry' = {}
              /\ queue' = Tail(queue)
              /\ pc' = "sleep"
              /\ cyc' = NoCycle
              /\ delivered' = [x \in DOMAIN delivered |-> 0]
              /\ UNCHANGED <<accounts, meta>>
         ELSE LET a == accounts[id]
                  found == IF first_check(a.last_check) THEN <<>>          \* 286-290
                           ELSE filter_new(posts, a.did, a.last_check, ledger)
              IN  /\ new_posts' = found
                  /\ accounts' = [accounts EXCEPT ![id].last_check = now]  \* 287 / 333
                  /\ chk' = [id |-> id, did |-> a.did, fetched |-> posts,
                             lcBefore |-> a.last_check,
                             first |-> ~meta[id].checked,
                             added_at |-> meta[id].added_at,
                             retryDue |-> {u \in Uris : Pair(a.did, u) \in retry},
                             found |-> TRUE]
                  /\ meta' = [meta EXCEPT ![id] = [added_at |-> NULL, checked |-> TRUE]]
                  /\ retry' = {}
                  /\ pc' = "sendbegin"
                  /\ UNCHANGED <<queue, cyc, delivered>>
    /\ k' = 1
    /\ UNCHANGED <<now, env, marking, ledger, running, acct, expired>>
    /\ UNCHANGED <<disp, lost, lastMark, everSent, op>>

\* run() 514 with whatever list get_recent_posts returns
CheckNewPosts == \E posts \in Feeds : check_new_posts(posts) /\ UNCHANGED call

\* notifier.py 668-674: _send_notifications re-reads the account by primary key
SendBegin ==
    /\ pc = "sendbegin"
    /\ LET id == Head(queue) IN
       IF id \notin DOMAIN accounts
       THEN \* 672-674: the row is gone; the error path returns (724-725)
            /\ acct' = NoAccount
            /\ pc' = "update"
       ELSE /\ acct' = [id |-> id, did |-> accounts[id].did,
                        handle |-> accounts[id].handle,
                        prefs |-> <<>>, loaded |-> FALSE]
            /\ pc' = IF new_posts = <<>> THEN "update" ELSE "send"
    /\ expired' = FALSE
    /\ chk' = [chk EXCEPT !.fetched = <<>>, !.retryDue = {}]
    /\ UNCHANGED <<now, env, marking, accounts, ledger, running, queue, new_posts, k>>
    /\ UNCHANGED <<delivered, cyc, disp, meta, retry, lost, lastMark, everSent, op, call>>

\* notifier.py 676-722: one pass of `for post in new_posts`
SendOne ==
    /\ pc = "send"
    /\ k <= Len(new_posts)
    /\ LET post  == new_posts[k]
           here  == acct.id \in DOMAIN accounts
           \* attributes expired by a commit are re-read from the row; when the
           \* row is gone the read fails inside _format_notification (655-657)
           stale == expired /\ ~here
       IN  IF stale \/ ~format_ok(post)
           THEN \* 678-679: `continue`
                /\ UNCHANGED <<ledger, acct, expired>>
                /\ UNCHANGED <<delivered, disp, retry, lastMark, everSent>>
           ELSE \E out \in [Channels -> BOOLEAN] :
                LET did   == IF expired THEN accounts[acct.id].did ELSE acct.did
                    handle == IF expired THEN accounts[acct.id].handle ELSE acct.handle
                    prefs == IF acct.loaded /\ ~expired THEN acct.prefs
                             ELSE IF here THEN accounts[acct.id].prefs ELSE <<>>
                    sent  == sends(prefs, env, out)
                    was   == existing_notification(ledger, did, post.uri)
                    pair  == Pair(did, post.uri)
                IN  /\ ledger' = IF notifications_sent(sent)                 \* 720-722
                                 THEN mark_post_notified(ledger, did, post.uri)
                                 ELSE ledger
                    /\ expired' = (ledger' # ledger)     \* database.py 217: commit
                    /\ acct' = [id |-> acct.id, did |-> did, handle |-> handle,
                                prefs |-> prefs, loaded |-> TRUE]
                    /\ delivered' = Bump(delivered, did, post.uri, sent)
                    /\ disp' = [tried  |-> disp.tried \cup {pair},
                                 sentOk |-> IF sent # <<>> THEN disp.sentOk \cup {pair}
                                            ELSE disp.sentOk]
                    /\ retry' = IF sent = <<>> /\ attempted(prefs, env) # {}
                                THEN retry \cup {pair} ELSE retry \ {pair}
                    /\ everSent' = IF sent # <<>> THEN everSent \cup {pair} ELSE everSent
                    /\ lastMark' = IF ~notifications_sent(sent) THEN "none"
                                   ELSE IF was THEN "existing" ELSE "inserted"
    /\ k' = k + 1
    /\ pc' = IF k + 1 > Len(new_posts) THEN "update" ELSE "send"
    /\ UNCHANGED <<now, env, marking, accounts, running, queue, new_posts>>
    /\ UNCHANGED <<cyc, chk, meta, lost, op, call>>

\* notifier.py 516-518: run() sets last_check once more and commits; a row that
\* is gone makes the commit fail, which ends the iteration (519-520)
UpdateLastCheck_unset ==
    /\ pc = "update"
    /\ LET id == Head(queue) IN
       IF id \in DOMAIN accounts
       THEN /\ accounts' = [accounts EXCEPT ![id].last_check = NULL]
            /\ queue' = Tail(queue)
            /\ pc' = IF Tail(queue) = <<>> THEN "sleep" ELSE "check"
       ELSE \* the accounts still in the list are not reached in this iteration
            /\ accounts' = accounts
            /\ queue' = Tail(queue)
            /\ pc' = "sleep"
    /\ new_posts' = <<>>
    /\ k' = 1
    /\ acct' = NoAccount
    /\ expired' = FALSE
    /\ chk' = NoCheck
    /\ disp' = NoDispatch
    /\ lastMark' = "none"
    /\ cyc' = IF pc' = "sleep" THEN NoCycle ELSE cyc
    /\ delivered' = IF pc' = "sleep" THEN [x \in DOMAIN delivered |-> 0] ELSE delivered
    /\ UNCHANGED <<now, env, marking, ledger, running>>
    /\ UNCHANGED <<meta, retry, lost, everSent, op, call>>
UpdateLastCheck ==
    /\ pc = "update"
    /\ LET id == Head(queue) IN
       IF id \in DOMAIN accounts
       THEN /\ accounts' = [accounts EXCEPT ![id].last_check = now]
            /\ queue' = Tail(queue)
            /\ pc' = IF Tail(queue) = <<>> THEN "sleep" ELSE "check"
       ELSE \* the accounts still in the list are not reached in this iteration
            /\ accounts' = accounts
            /\ queue' = Tail(queue)
            /\ pc' = "sleep"
    /\ new_posts' = <<>>
    /\ k' = 1
    /\ acct' = NoAccount
    /\ expired' = FALSE
    /\ chk' = NoCheck
    /\ disp' = NoDispatch
    /\ lastMark' = "none"
    /\ cyc' = IF pc' = "sleep" THEN NoCycle ELSE cyc
    /\ delivered' = IF pc' = "sleep" THEN [x \in DOMAIN delivered |-> 0] ELSE delivered
    /\ UNCHANGED <<now, env, marking, ledger, running>>
    /\ UNCHANGED <<meta, retry, lost, everSent, op, call>>

\* notifier.py 522: asyncio.sleep(check_interval), then back to the loop condition
Sleep ==
    /\ pc = "sleep"
    /\ pc' = "top"
    /\ UNCHANGED <<now, env, marking, accounts, ledger, running, queue, new_posts, k, acct, expired>>
    /\ UNCHANGED hist

\* the process dies: everything in memory is lost, the two tables stay
Crash ==
    /\ pc \in {"top", "check", "sendbegin", "send", "update", "sleep"}
    /\ lost' = IF pc \in {"sendbegin", "send"} /\ chk.found /\ chk.id \in DOMAIN accounts
               THEN {[account_did |-> chk.did, post_id |-> new_posts[i].uri,
                      indexed |-> IndexedAt(new_posts[i]),
                      last_check |-> accounts[chk.id].last_check] :
                        i \in {j \in DOMAIN new_posts :
                                 /\ format_ok(new_posts[j])
                                 /\ ~existing_notification(ledger, chk.did, new_posts[j].uri)}}
               ELSE {}
    /\ pc' = "stopped"
    /\ running' = FALSE
    /\ queue' = <<>>
    /\ new_posts' = <<>>
    /\ k' = 1
    /\ acct' = NoAccount
    /\ expired' = FALSE
    /\ chk' = NoCheck
    /\ cyc' = NoCycle
    /\ disp' = NoDispatch
    /\ lastMark' = "none"
    /\ delivered' = [x \in DOMAIN delivered |-> 0]
    /\ retry' = {}
    /\ UNCHANGED <<now, env, marking, accounts, ledger>>
    /\ UNCHANGED <<meta, everSent, op, call>>

Next ==
    \/ Tick
    \/ AddAccount
    \/ RemoveAccount
    \/ Run
    \/ LoopTop
    \/ CheckNewPosts
    \/ SendBegin
    \/ SendOne
    \/ UpdateLastCheck
    \/ Sleep
    \/ Crash

Spec == Init /\ [][Next]_vars

\* ------------------------------------------- the scenario of spec.md section 8
\* alice.example is added at T0 with P1 already in her feed; the loop runs a
\* cycle at T0, one at T0+60s and one at T0+6m; P2 is indexed at T0+5m and is
\* in the feed from then on.  Instants: 0 = T0-10m, 1 = T0, 2 = T0+60s,
\* 3 = T0+5m, 4 = T0+6m.
Scenario == [T0 |-> 1, cycle2 |-> 2, cycle3 |-> 4]

\* P1's indexedAt carries a UTC offset, P2's is written in UTC
ScP1 == [uri |-> "at://a/app.bsky.feed.post/p1", ok |-> TRUE, wall |-> 2, off |-> 2]
ScP2 == [uri |-> "at://a/app.bsky.feed.post/p2", ok |-> TRUE, wall |-> 3, off |-> 0]

\* what getAuthorFeed returns at instant t, most recent first
ScenarioFeed(t) == IF t >= Scenario.cycle3 THEN <<ScP2, ScP1>> ELSE <<ScP1>>

\* the clock moves to the instant of the next cycle; a cycle takes no time on
\* this scale, and every instant from T0 on sees a whole cycle
ScTick ==
    /\ now < Scenario.cycle3
    /\ pc \in {"stopped", "top", "sleep"}
    /\ now >= Scenario.T0 =>
          \E id \in DOMAIN accounts :
              meta[id].checked /\ accounts[id].last_check = now
    /\ now' = IF now < Scenario.T0 THEN Scenario.T0
              ELSE IF now < Scenario.cycle2 THEN Scenario.cycle2
              ELSE Scenario.cycle3
    /\ UNCHANGED <<env, marking, accounts, ledger, running, pc, queue, new_posts, k, acct, expired>>
    /\ UNCHANGED hist

\* the account is added at T0, with one channel enabled (the defaults, or
\* email alone)
ScAdd ==
    /\ now = Scenario.T0
    /\ \E identifier \in Identifiers :
       \E prefs \in {pl \in PrefLists :
                       Cardinality({i \in DOMAIN default_prefs(pl) :
                                       default_prefs(pl)[i].enabled}) = 1} :
           add_account(identifier, prefs)
    /\ UNCHANGED <<op, call>>

ScCheck == check_new_posts(ScenarioFeed(now)) /\ UNCHANGED call

NextScenario ==
    \/ ScTick
    \/ ScAdd
    \/ Run
    \/ LoopTop
    \/ ScCheck
    \/ SendBegin
    \/ SendOne
    \/ UpdateLastCheck
    \/ Sleep

SpecScenario == Init /\ [][NextScenario]_vars

\* ------------------------------------------------ account-store requests
\* Handles the callers type, and what getProfile answers for them.  Handles are
\* mutable: alice.example may by now belong to did:2 while the row stored for
\* did:1 still carries it.
Handles == {"alice.example", "bob.example"}

\* str.lower() on the handles used here; getProfile resolves case-insensitively
lower(handle) == IF handle = "Alice.Example" THEN "alice.example" ELSE handle

Profiles == { [did |-> "did:1", handle |-> "alice.example"],
              [did |-> "did:2", handle |-> "bob.example"],
              [did |-> "did:2", handle |-> "alice.example"] }
get_profile(handle) == {p \in Profiles : p.handle = lower(handle)}

\* preference lists a caller supplies; nothing stops a list from naming a type twice
SuppliedPrefs == PrefLists \cup { <<Pref("desktop", TRUE), Pref("desktop", FALSE)>> }

\* request bodies / option sets that supply any subset of {desktop, email}
Partials == UNION {[S -> BOOLEAN] : S \in SUBSET {"desktop", "email"}}

\* position of run() inside an iteration's per-account work
InCycle == pc \in {"check", "sendbegin", "send", "update"}

\* Account Store update_preferences (spec.md 4.4): the supplied values are
\* merged into the preference set; a type with no row gets one.  An unknown
\* account is answered with a not-found error and nothing is written.
RECURSIVE set_enabled(_, _)
set_enabled(prefs, partial) ==
    IF prefs = <<>> THEN <<>>
    ELSE <<IF Head(prefs).type \in DOMAIN partial
           THEN Pref(Head(prefs).type, partial[Head(prefs).type])
           ELSE Head(prefs)>> \o set_enabled(Tail(prefs), partial)
merge_preferences(prefs, partial) ==
    LET has(t) == \E i \in DOMAIN prefs : prefs[i].type = t
        new(t) == IF t \in DOMAIN partial /\ ~has(t) THEN <<Pref(t, partial[t])>> ELSE <<>>
    IN  set_enabled(prefs, partial) \o new("desktop") \o new("email")

\* routes.py 176-179: the body's missing keys are filled with defaults
route_preferences(data) ==
    [t \in {"desktop", "email"} |->
        IF t \in DOMAIN data THEN data[t] ELSE (t = "desktop")]

\* commands.py 156-160: only the options given are passed on
cli_preferences(desktop, email) ==
    [t \in {x \in {"desktop", "email"} :
                (x = "desktop" /\ desktop # "None") \/ (x = "email" /\ email # "None")}
        |-> IF t = "desktop" THEN desktop = "True" ELSE email = "True"]

\* notifier.py 201-211: `prefs` is the account's preference list; with no row
\* a NotificationPreference is added, otherwise desktop / email are set as
\* attributes of the list object and no row changes
update_notification_preferences(row, desktop, email) ==
    IF row.prefs = <<>>
    THEN [row EXCEPT !.prefs = <<Pref("", TRUE)>>]
    ELSE row

\* notifier.py 174: MonitoredAccount has is_active but no attribute `active`;
\* reading it raises AttributeError, the handler returns False (180-182)
toggle_account_status(row) == row

\* what every request leaves behind: the table, and the record of the request
StoreRequest(name, id, ok, handle, prefs, supplied, rows) ==
    /\ accounts' = rows
    /\ meta' = [i \in DOMAIN rows |->
                  IF i \in DOMAIN meta /\ ~(name = "add" /\ i = id) THEN meta[i]
                  ELSE [added_at |-> IF rows[i].last_check # NULL THEN now ELSE NULL,
                        checked |-> FALSE]]
    /\ UNCHANGED call
    /\ op' = [name |-> name, id |-> id, ok |-> ok, during |-> InCycle,
              handle |-> handle, prefs |-> prefs, supplied |-> supplied]
    /\ retry' = IF name = "remove" /\ ok THEN {} ELSE retry
    /\ UNCHANGED <<now, env, marking, ledger, running, pc, queue, new_posts, k, acct, expired>>
    /\ UNCHANGED <<delivered, cyc, disp, chk, lost, lastMark, everSent>>

OptionValues == {"None", "True", "False"}

\* notifier.py 403-443 add_account, for whatever getProfile answers
StoreAdd ==
    \E handle \in Handles \cup Identifiers, prefs \in SuppliedPrefs :
    \E profile \in get_profile(handle) :
        LET res == add_monitored_account(accounts, profile, prefs)
        IN  /\ res.id <= MaxId
            /\ StoreRequest("add", res.id, res.ok, handle, prefs, <<>>,
                            IF res.ok THEN set_initial_last_check(res.rows, handle, now)
                            ELSE accounts)

\* notifier.py 445-469 remove_account / database.py 160-189
store_remove(identifier, by_did) ==
    LET id == IF by_did THEN first_by_did(accounts, identifier)
              ELSE first_by_handle(accounts, identifier)
    IN  StoreRequest("remove", id, id # 0, "", <<>>, <<>>,
                     IF id # 0 THEN Delete(accounts, id) ELSE accounts)

StoreRemove ==
    \/ \E did \in DIDs : store_remove(did, TRUE)
    \/ \E handle \in Handles : store_remove(handle, FALSE)

\* notifier.py 159-182 toggle_account_status
ToggleAccountStatus ==
    \E handle \in Handles :
        LET id == first_by_handle(accounts, handle)
        IN  /\ id # 0
            /\ StoreRequest("toggle", id, FALSE, "", <<>>, <<>>,
                            [accounts EXCEPT ![id] = toggle_account_status(@)])

\* notifier.py 184-216 update_notification_preferences
UpdateNotificationPreferences ==
    \E handle \in Handles, desktop \in OptionValues, email \in OptionValues :
        LET id == first_by_handle(accounts, handle)
        IN  StoreRequest("update", id, id # 0, "", <<>>, cli_preferences(desktop, email),
                         IF id = 0 THEN accounts                              \* 196-199
                         ELSE [accounts EXCEPT
                                  ![id] = update_notification_preferences(@, desktop, email)])

\* routes.py 165-205 PUT /api/accounts/<handle>/preferences: the account is
\* found by lower-cased handle (186-187), the store is updated by its did (195)
RouteUpdatePreferences ==
    \E handle \in Handles \cup Identifiers, data \in Partials :
        LET m   == {i \in DOMAIN accounts : lower(accounts[i].handle) = lower(handle)}
            hit == CHOOSE i \in m : \A j \in m : i <= j
            id  == IF m = {} THEN 0 ELSE first_by_did(accounts, accounts[hit].did)
        IN  StoreRequest("update", id, id # 0, "", <<>>, data,
                         IF id = 0 THEN accounts                              \* 189-193
                         ELSE [accounts EXCEPT
                                  ![id].prefs = merge_preferences(@, route_preferences(data))])

\* commands.py 147-165 update: the store is updated by handle with the options given
CliUpdate ==
    \E handle \in Handles, desktop \in OptionValues, email \in OptionValues :
        LET id == first_by_handle(accounts, handle)
        IN  StoreRequest("update", id, id # 0, "", <<>>, cli_preferences(desktop, email),
                         IF id = 0 THEN accounts
                         ELSE [accounts EXCEPT
                                  ![id].prefs = merge_preferences(@, cli_preferences(desktop, email))])

NextStore ==
    \/ StoreAdd
    \/ StoreRemove
    \/ ToggleAccountStatus
    \/ UpdateNotificationPreferences
    \/ RouteUpdatePreferences
    \/ CliUpdate

SpecStore == Init /\ [][NextStore]_vars

\* ------------------------------ the loop next to the request handlers
\* run() in its own thread, stop(), storage errors, and requests arriving at
\* any point of an iteration.

\* notifier.py 403-443 add_account with no preferences supplied, for a handle
\* that still belongs to the did it was first seen with
LoopAdd ==
    \E handle \in Handles :
        LET profile == CHOOSE p \in get_profile(handle) :
                          (p.did = "did:1") = (handle = "alice.example")
            res == add_monitored_account(accounts, profile, <<>>)
        IN  /\ res.ok
            /\ res.id <= MaxId
            /\ StoreRequest("add", res.id, TRUE, handle, <<>>, <<>>,
                            set_initial_last_check(res.rows, handle, now))

\* feeds the lean loop sees: nothing, or the one post P1
LeanFeeds == {<<>>, <<P1>>}

LeanCheck == \E posts \in LeanFeeds : check_new_posts(posts) /\ UNCHANGED call

\* notifier.py 524-526 stop()
Stop ==
    /\ running
    /\ running' = FALSE
    /\ UNCHANGED <<now, env, marking, accounts, ledger, pc, queue, new_posts, k, acct, expired>>
    /\ UNCHANGED hist

\* notifier.py 509: `while self._running` finds the flag cleared; run() returns
LoopExit ==
    /\ pc = "top"
    /\ ~running
    /\ pc' = "stopped"
    /\ UNCHANGED <<now, env, marking, accounts, ledger, running, queue, new_posts, k, acct, expired>>
    /\ UNCHANGED hist

\* notifier.py 512: the query raises; caught at 519-520, then the sleep
QueryFails_uncaught ==
    /\ pc = "top"
    /\ running
    /\ pc' = "stopped"
    /\ queue' = <<>>
    /\ op' = [op EXCEPT !.during = FALSE]
    /\ UNCHANGED call
    /\ UNCHANGED <<now, env, marking, accounts, ledger, running, new_posts, k, acct, expired>>
    /\ UNCHANGED <<delivered, cyc, disp, chk, meta, retry, lost, lastMark, everSent>>
QueryFails ==
    /\ pc = "top"
    /\ running
    /\ pc' = "sleep"
    /\ queue' = <<>>
    /\ op' = [op EXCEPT !.during = FALSE]
    /\ UNCHANGED call
    /\ UNCHANGED <<now, env, marking, accounts, ledger, running, new_posts, k, acct, expired>>
    /\ UNCHANGED <<delivered, cyc, disp, chk, meta, retry, lost, lastMark, everSent>>

\* notifier.py 339-342: anything raised inside _check_new_posts (the fetch
\* bookkeeping, a query, the commit at 334) is caught there; [] is returned
\* and last_check is not committed
CheckFails ==
    /\ pc = "check"
    /\ new_posts' = <<>>
    /\ chk' = [NoCheck EXCEPT !.id = Head(queue)]
    /\ retry' = {}
    /\ pc' = "sendbegin"
    /\ k' = 1
    /\ UNCHANGED <<now, env, marking, accounts, ledger, running, queue, acct, expired>>
    /\ UNCHANGED <<delivered, cyc, disp, meta, lost, lastMark, everSent, op, call>>

\* notifier.py 724-725: anything raised in _send_notifications outside the
\* per-channel try blocks ends the call; the posts not yet reached are dropped
SendFails ==
    /\ pc \in {"sendbegin", "send"}
    /\ pc' = "update"
    /\ chk' = [chk EXCEPT !.fetched = <<>>, !.retryDue = {}]
    /\ UNCHANGED <<now, env, marking, accounts, ledger, running, queue, new_posts, k, acct, expired>>
    /\ UNCHANGED <<delivered, cyc, disp, meta, retry, lost, lastMark, everSent, op, call>>

\* notifier.py 517-518: the commit raises; the except at 519 is outside the
\* `for account in accounts` loop, so the iteration ends here
CommitFails ==
    /\ pc = "update"
    /\ queue' = Tail(queue)
    /\ pc' = "sleep"
    /\ new_posts' = <<>>
    /\ k' = 1
    /\ acct' = NoAccount
    /\ expired' = FALSE
    /\ chk' = NoCheck
    /\ disp' = NoDispatch
    /\ lastMark' = "none"
    /\ cyc' = NoCycle
    /\ delivered' = [x \in DOMAIN delivered |-> 0]
    /\ UNCHANGED <<now, env, marking, accounts, ledger, running>>
    /\ UNCHANGED <<meta, retry, lost, everSent, op, call>>

\* commands.py 279-294 start: Ctrl-C raises KeyboardInterrupt out of
\* run_until_complete, wherever run() stands; the handler then calls stop(),
\* closes the event loop and exits. run() is not resumed.
Interrupt ==
    /\ pc \notin {"stopped", "closed"}
    /\ running' = FALSE
    /\ pc' = "closed"
    /\ queue' = <<>>
    /\ new_posts' = <<>>
    /\ k' = 1
    /\ acct' = NoAccount
    /\ expired' = FALSE
    /\ chk' = NoCheck
    /\ cyc' = NoCycle
    /\ disp' = NoDispatch
    /\ lastMark' = "none"
    /\ delivered' = [x \in DOMAIN delivered |-> 0]
    /\ UNCHANGED <<now, env, marking, accounts, ledger>>
    /\ UNCHANGED <<meta, retry, lost, everSent, op, call>>

NextLoop ==
    \/ LoopAdd
    \/ StoreRemove
    \/ ToggleAccountStatus
    \/ Run
    \/ LoopTop
    \/ LeanCheck
    \/ SendBegin
    \/ SendOne
    \/ UpdateLastCheck
    \/ Sleep
    \/ Stop
    \/ LoopExit
    \/ QueryFails
    \/ CheckFails
    \/ SendFails
    \/ CommitFails
    \/ Interrupt

SpecLoop == Init /\ [][NextLoop]_vars

\* asyncio runs the run() coroutine on: each of its steps is taken once it
\* can be, and the sleep ends
FairLoop ==
    /\ SpecLoop
    /\ WF_vars(LoopTop) /\ WF_vars(LeanCheck) /\ WF_vars(SendBegin) /\ WF_vars(SendOne)
    /\ WF_vars(UpdateLastCheck) /\ WF_vars(Sleep) /\ WF_vars(LoopExit)

\* -------------------------------------------------- calls to the remote API
\* What the remote answers to one HTTP attempt: 200 with a body, a transient
\* failure (timeout, connection reset, 5xx) or a permanent one (400/404).
Responses == {"ok", "transient", "permanent"}

\* the answers the remote would give to the successive attempts of one call
Answers == UNION {[1..m -> Responses] : m \in 1..MaxAnswers}

\* notifier.py 101-118 _make_request: one session.get, raise_for_status()
make_request_retrying(answers) ==
    LET hit == {i \in DOMAIN answers : answers[i] = "ok"}
    IN  IF hit = {} THEN [attempts |-> Len(answers), result |-> "raise"]
        ELSE [attempts |-> CHOOSE i \in hit : \A j \in hit : i <= j, result |-> "ok"]
make_request(answers) ==
    [attempts |-> 1, result |-> IF answers[1] = "ok" THEN "ok" ELSE "raise"]

\* notifier.py 384-401 get_recent_posts: data["feed"], or [] when the request raised
get_recent_posts_unguarded(answers, feed) == feed
get_recent_posts(answers, feed) ==
    IF make_request(answers).result = "ok" THEN feed ELSE <<>>

\* a post indexed at T0+60s
ScLate == [uri |-> "at://a/app.bsky.feed.post/p1", ok |-> TRUE, wall |-> 2, off |-> 0]

\* the author feed as the remote holds it at instant t, most recent first
RemoteFeed(t) ==
    IF t >= ScP2.wall - ScP2.off THEN <<ScP2, ScLate>>
    ELSE IF t >= ScLate.wall - ScLate.off THEN <<ScLate>>
    ELSE <<>>

\* notifier.py 403-443 add_account at T0: get_profile (359-382) turns a raised
\* request into {"error": ...}, which add_account returns before any write
\* (419-420); an existing did is refused by the store (database.py 122-124)
FetchAdd ==
    /\ now = Scenario.T0
    /\ \E identifier \in Identifiers, answers \in Answers :
          LET r      == make_request(answers)
              exists == first_by_did(accounts, Profile(identifier).did) # 0
          IN  /\ call' = [fn |-> "add_account", answers |-> answers,
                          attempts |-> r.attempts,
                          result |-> IF r.result # "ok" THEN "error"
                                     ELSE IF exists THEN "exists" ELSE "ok"]
              /\ IF r.result = "ok" /\ ~exists
                 THEN add_account(identifier, <<>>)
                 ELSE /\ UNCHANGED prog
                      /\ UNCHANGED <<delivered, cyc, disp, chk, meta, retry, lost,
                                     lastMark, everSent>>
    /\ UNCHANGED op

\* run() 514 with the feed fetched over HTTP (271, 397)
FetchCheck ==
    \E answers \in Answers :
        /\ pc = "check"
        /\ call' = [fn |-> "get_recent_posts", id |-> Head(queue), answers |-> answers,
                    attempts |-> make_request(answers).attempts,
                    result |-> IF make_request(answers).result = "ok" THEN "ok" ELSE "error",
                    feed |-> RemoteFeed(now),
                    posts |-> get_recent_posts(answers, RemoteFeed(now)),
                    \* the instant of the account's last failed fetch
                    failedAt |-> IF make_request(answers).result # "ok" THEN now
                                 ELSE IF call.fn = "get_recent_posts" THEN call.failedAt
                                 ELSE NULL]
        /\ check_new_posts(get_recent_posts(answers, RemoteFeed(now)))

\* Account Store add (spec.md 4.4), as the route calls it on db_manager: a
\* did or handle that is already stored is refused; otherwise the account is
\* created with the default preferences and a null last-check.
store_add(rows, profile) ==
    IF \E i \in DOMAIN rows : rows[i].did = profile.did \/ rows[i].handle = profile.handle
    THEN [ok |-> FALSE, id |-> 0, rows |-> rows]
    ELSE [ok |-> TRUE, id |-> next_id(rows),
          rows |-> Insert(rows, next_id(rows),
                          [did |-> profile.did, handle |-> profile.handle,
                           is_active |-> TRUE, last_check |-> NULL,
                           prefs |-> default_prefs(<<>>)])]

\* routes.py 65-99 POST /api/accounts: the status and body of the answer, and
\* the table afterwards.  get_account_info (notifier.py 66-99) makes one
\* requests.get and raises on any failure.
route_add_account(handle, authenticated, answers, rows) ==
    IF ~authenticated
    THEN [status |-> 401, error |-> TRUE, rows |-> rows]                \* 69-73
    ELSE IF handle = ""
    THEN [status |-> 400, error |-> TRUE, rows |-> rows]                \* 78-79
    ELSE IF answers[1] # "ok"
    THEN [status |-> 500, error |-> TRUE, rows |-> rows]                \* 82, 97-99
    ELSE IF store_add(rows, Profile(handle)).ok
    THEN [status |-> 200, error |-> FALSE,
          rows |-> store_add(rows, Profile(handle)).rows]               \* 92-93
    ELSE [status |-> 400, error |-> TRUE, rows |-> rows]                \* 94-95

RouteAdd ==
    /\ now = Scenario.T0
    /\ \E handle \in Identifiers \cup {""}, authenticated \in BOOLEAN, answers \in Answers :
          LET res == route_add_account(handle, authenticated, answers, accounts)
          IN  /\ accounts' = res.rows
              /\ meta' = [i \in DOMAIN res.rows |->
                            IF i \in DOMAIN meta THEN meta[i]
                            ELSE [added_at |-> NULL, checked |-> FALSE]]
              /\ call' = [fn |-> "route_add", handle |-> handle, answers |-> answers,
                          authenticated |-> authenticated,
                          added |-> res.rows # accounts,
                          status |-> res.status, error |-> res.error]
    /\ UNCHANGED <<now, env, marking, ledger, running, pc, queue, new_posts, k, acct, expired>>
    /\ UNCHANGED <<delivered, cyc, disp, chk, retry, lost, lastMark, everSent, op>>

NextFetch ==
    \/ ScTick
    \/ FetchAdd
    \/ RouteAdd
    \/ Run
    \/ LoopTop
    \/ FetchCheck
    \/ SendBegin
    \/ SendOne
    \/ UpdateLastCheck
    \/ Sleep

SpecFetch == Init /\ [][NextFetch]_vars

\* ------------------------------------------------- one post, its channels
\* What a channel's delivery does when called: it delivers, it reports a
\* failure (e.g. incomplete Mailgun configuration), or it raises.
Outcomes == {"sent", "failed", "raised"}

\* notifier.py 568-570, 622-624: _send_notification_async and _send_email
\* catch what the delivery raises and return False; 710-717: the broadcast
\* counts as sent unless it raises
channel_result(outcome) == outcome = "sent"

\* preference rows of an account, in either order
DispatchPrefs ==
    {<<Pref("desktop", x), Pref("email", y)>> : x \in BOOLEAN, y \in BOOLEAN}
        \cup {<<Pref("email", x), Pref("desktop", y)>> : x \in BOOLEAN, y \in BOOLEAN}

\* notifier.py 683-717 for one post
Dispatch ==
    /\ \E prefs \in DispatchPrefs, outcome \in [Channels -> Outcomes] :
          call' = [fn |-> "dispatch", prefs |-> prefs, outcome |-> outcome,
                   sent |-> sends(prefs, env, [c \in Channels |-> channel_result(outcome[c])])]
    /\ UNCHANGED prog
    /\ UNCHANGED <<delivered, cyc, disp, chk, meta, retry, lost, lastMark, everSent, op>>

SpecDispatch == Init /\ [][Dispatch]_vars

\* ------------------------------------------------ the text of a notification
\* Strings are sequences of characters.  _format_notification (notifier.py
\* 626-657) builds title and message from the post body and the account;
\* each channel then delivers what it makes of them.
MessageLimit == 200     \* notifier.py 649: text[:200]
DesktopLimit == 140     \* notifier.py 547: clean_message[:140]

Rep(c, n) == [i \in 1..n |-> c]

Ellipsis == <<".", ".", ".">>

NewPostFrom == <<"N", "e", "w", " ", "p", "o", "s", "t", " ", "f", "r", "o", "m", " ">>

\* post bodies: around both limits, with and without a double quote in them
BodyLengths == {0, 1, DesktopLimit, DesktopLimit + 1, MessageLimit, MessageLimit + 1}
Bodies == {Rep("a", n) : n \in BodyLengths}
             \cup {<<"\"">> \o Rep("a", n - 1) : n \in BodyLengths \ {0}}

\* account.display_name (<<>> when empty or None) and account.handle
DisplayNames == {<<>>, <<"A">>, <<"\"", "A">>}
HandleTexts == {<<"a">>, <<"b">>}

\* s[:n]
Prefix(s, n) == IF Len(s) <= n THEN s ELSE SubSeq(s, 1, n)

\* str.replace('"', "'")
replace_quotes(s) == [i \in DOMAIN s |-> IF s[i] = "\"" THEN "'" ELSE s[i]]

\* notifier.py 648: f"New post from {account.display_name or account.handle}"
format_title(display_name, handle) ==
    NewPostFrom \o (IF display_name # <<>> THEN display_name ELSE handle)

\* notifier.py 649: text[:200] + ("..." if len(text) > 200 else "")
format_message(text) ==
    Prefix(text, MessageLimit) \o (IF Len(text) > MessageLimit THEN Ellipsis ELSE <<>>)

\* notifier.py 545-567 _send_notification_async: what reaches terminal-notifier
\* or desktop-notifier
desktop_text(title, message) ==
    LET clean_message == replace_quotes(message)
    IN  [title   |-> replace_quotes(title),
         message |-> IF Len(clean_message) > DesktopLimit
                     THEN Prefix(clean_message, DesktopLimit) \o Ellipsis
                     ELSE clean_message]

\* notifier.py 596-616 _send_email: subject and the paragraph of the html body
email_text(title, message) == [title |-> title, message |-> message]

\* notifier.py 677-704 for one post whose uri is well formed, with both
\* channels enabled: the text handed to each channel's delivery
Notify ==
    /\ \E body \in Bodies, display_name \in DisplayNames, handle \in HandleTexts :
          LET title   == format_title(display_name, handle)
              message == format_message(body)
          IN  call' = [fn |-> "notify", body |-> body,
                       display_name |-> display_name, handle |-> handle,
                       desktop |-> desktop_text(title, message),
                       email |-> email_text(title, message)]
    /\ UNCHANGED prog
    /\ UNCHANGED <<delivered, cyc, disp, chk, meta, retry, lost, lastMark, everSent, op>>

SpecText == Init /\ [][Notify]_vars

\* ------------------------------------------------ the Mailgun configuration
\* os.getenv of the four variables _send_email needs (notifier.py 586-590)
MailgunKeys == {"MAILGUN_API_KEY", "MAILGUN_DOMAIN", "MAILGUN_FROM_EMAIL", "MAILGUN_TO_EMAIL"}

\* the variables that are set: all of them, all but one, or none
MailgunConfigs == {MailgunKeys, {}} \cup {MailgunKeys \ {key} : key \in MailgunKeys}

\* notifier.py 572-624 _send_email: whether the request to Mailgun is made, and
\* what the call returns; accepted is what the request does when made
send_email_unconfigured(config, accepted) ==
    [requested |-> TRUE, result |-> accepted]
send_email(config, accepted) ==
    IF config # MailgunKeys
    THEN [requested |-> FALSE, result |-> FALSE]                        \* 592-594
    ELSE [requested |-> TRUE, result |-> accepted]                      \* 607-620

\* notifier.py 683-722 for one well-formed post of did:1, under a Mailgun
\* configuration: the channels are called, then the ledger row is written
EmailDispatch ==
    /\ \E config \in MailgunConfigs, prefs \in DispatchPrefs, out \in [Channels -> BOOLEAN] :
          LET email == send_email(config, out["email"])
              sent  == sends(prefs, env, [out EXCEPT !["email"] = email.result])
          IN  /\ ledger' = IF notifications_sent(sent)                  \* 720-722
                           THEN mark_post_notified(ledger, "did:1", P1.uri)
                           ELSE ledger
              /\ call' = [fn |-> "email_dispatch", config |-> config, prefs |-> prefs,
                          out |-> out,
                          requested |-> "email" \in attempted(prefs, env) /\ email.requested,
                          sent |-> sent,
                          marked |-> ledger' # ledger]
    /\ UNCHANGED <<now, env, marking, accounts, running, pc, queue, new_posts, k, acct, expired>>
    /\ UNCHANGED <<delivered, cyc, disp, chk, meta, retry, lost, lastMark, everSent, op>>

SpecEmail == Init /\ [][EmailDispatch]_vars

\* ------------------------------------------------ storage errors in the store
\* db.session: the changes of an operation are pending until commit(); when
\* the commit raises, the handler calls rollback(), which discards them
\* (database.py 151/156, 182/187, 217/222)
commit_keeping_pending(persisted, pending, commit_ok) == pending
commit_or_rollback(persisted, pending, commit_ok) ==
    IF commit_ok THEN pending ELSE persisted

\* database.py 110-158 add_monitored_account, with the outcome of its commit
add_monitored_account_tx(rows, profile, prefs, commit_ok) ==
    LET res == add_monitored_account(rows, profile, prefs)
    IN  IF ~res.ok THEN [result |-> "error", reached |-> FALSE, rows |-> rows]   \* 122-124
        ELSE [result |-> IF commit_ok THEN "success" ELSE "error",           \* 153 / 158
              reached |-> TRUE,
              rows |-> commit_or_rollback(rows, res.rows, commit_ok)]

\* database.py 160-189 remove_monitored_account, with the outcome of its commit
remove_monitored_account_tx(rows, identifier, by_did, commit_ok) ==
    LET id == IF by_did THEN first_by_did(rows, identifier)
              ELSE first_by_handle(rows, identifier)
    IN  IF id = 0 THEN [result |-> "error", reached |-> FALSE, rows |-> rows]    \* 177-178
        ELSE [result |-> IF commit_ok THEN "success" ELSE "error",           \* 184 / 189
              reached |-> TRUE,
              rows |-> commit_or_rollback(rows, Delete(rows, id), commit_ok)]

\* database.py 191-224 mark_post_notified, with the outcome of its commit
mark_post_notified_tx(rows, did, post_id, commit_ok) ==
    IF existing_notification(rows, did, post_id)
    THEN [result |-> "False", reached |-> FALSE, rows |-> rows]                 \* 208-209
    ELSE [result |-> IF commit_ok THEN "True" ELSE "False",                  \* 219 / 224
          reached |-> TRUE,
          rows |-> commit_or_rollback(rows, mark_post_notified(rows, did, post_id),
                                      commit_ok)]

\* what a store operation leaves behind: the two tables and the record of the call
StoreCall(name, res, commit_ok, rows, marks) ==
    /\ accounts' = rows
    /\ ledger' = marks
    /\ meta' = [i \in DOMAIN rows |->
                  IF i \in DOMAIN meta THEN meta[i]
                  ELSE [added_at |-> NULL, checked |-> FALSE]]
    /\ call' = [fn |-> name, commit_ok |-> commit_ok, reached |-> res.reached,
                result |-> res.result]
    /\ UNCHANGED <<now, env, marking, running, pc, queue, new_posts, k, acct, expired>>
    /\ UNCHANGED <<delivered, cyc, disp, chk, retry, lost, lastMark, everSent, op>>

FaultyAdd ==
    \E handle \in Handles, prefs \in PrefLists, commit_ok \in BOOLEAN :
    \E profile \in get_profile(handle) :
        LET res == add_monitored_account_tx(accounts, profile, prefs, commit_ok)
        IN  /\ next_id(accounts) <= MaxId
            /\ StoreCall("add_monitored_account", res, commit_ok, res.rows, ledger)

FaultyRemove ==
    \E by_did \in BOOLEAN, commit_ok \in BOOLEAN :
    \E identifier \in IF by_did THEN DIDs ELSE Handles :
        LET res == remove_monitored_account_tx(accounts, identifier, by_did, commit_ok)
        IN  StoreCall("remove_monitored_account", res, commit_ok, res.rows, ledger)

FaultyMark ==
    \E did \in DIDs, commit_ok \in BOOLEAN :
        LET res == mark_post_notified_tx(ledger, did, P1.uri, commit_ok)
        IN  StoreCall("mark_post_notified", res, commit_ok, accounts, res.rows)

NextFault ==
    \/ FaultyAdd
    \/ FaultyRemove
    \/ FaultyMark

SpecFault == Init /\ [][NextFault]_vars

\* ------------------------------------- mark_post_notified, called concurrently
\* database.py 191-224 in two execution contexts, each with its own session:
\* the query (203-206) and the insert with its commit (212-217) are separate
\* statements, and the other context may run between them.

\* database.py 92-94 UniqueConstraint('account_did', 'post_id'): whether the
\* storage engine accepts one more row for the pair
unique_unenforced(rows, pair) == TRUE
unique_ok(rows, pair) == rows[pair] = 0

\* pairs the contexts mark
MarkPairs == {Pair("did:1", P1.uri), Pair("did:1", P2.uri)}

\* 203-206: the query for an existing row
MarkQuery ==
    /\ \E c \in Contexts, pair \in MarkPairs :
          /\ marking[c].pc = "idle"
          /\ marking' = [marking EXCEPT ![c] = [pc |-> "queried", pair |-> pair,
                                                  existing |-> ledger[pair] > 0,
                                                  result |-> "none"]]
    /\ UNCHANGED <<now, env, accounts, ledger, running, pc, queue, new_posts, k, acct, expired>>
    /\ UNCHANGED hist

\* 208-224: False when the query found a row; otherwise the row is added and
\* committed, and a commit the engine refuses (IntegrityError) is rolled back
\* and answered with False
MarkCommit ==
    /\ \E c \in Contexts :
          LET m == marking[c]
              inserted == ~m.existing /\ unique_ok(ledger, m.pair)          \* 212-217
          IN  /\ m.pc = "queried"
              /\ ledger' = IF inserted THEN [ledger EXCEPT ![m.pair] = @ + 1]
                           ELSE ledger                                      \* 209, 222
              /\ marking' = [marking EXCEPT ![c].pc = "done",
                                            ![c].result = IF inserted THEN "True" ELSE "False"]
    /\ UNCHANGED <<now, env, accounts, running, pc, queue, new_posts, k, acct, expired>>
    /\ UNCHANGED hist

\* the call has returned; the context may call again
MarkReturn ==
    /\ \E c \in Contexts :
          /\ marking[c].pc = "done"
          /\ marking' = [marking EXCEPT ![c] = NoMark]
    /\ UNCHANGED <<now, env, accounts, ledger, running, pc, queue, new_posts, k, acct, expired>>
    /\ UNCHANGED hist

NextMark ==
    \/ MarkQuery
    \/ MarkCommit
    \/ MarkReturn

SpecMark == Init /\ [][NextMark]_vars

\* ------------------------------------- the loop next to a working toggle
\* commands.py 135-145 `toggle` calls toggle_account_status of the store, which
\* flips the account's active flag (spec.md 4.4 toggle_active).
toggle_active(row) == [row EXCEPT !.is_active = ~@]

CliToggle ==
    \E handle \in Handles :
        LET id == first_by_handle(accounts, handle)
        IN  StoreRequest("toggle", id, id # 0, "", <<>>, <<>>,
                         IF id = 0 THEN accounts
                         ELSE [accounts EXCEPT ![id] = toggle_active(@)])

\* a step of run() inside an iteration's per-account work
CycleStep ==
    /\ InCycle
    /\ pc' # pc \/ k' # k \/ queue' # queue
    /\ pc' \notin {"stopped", "closed"}

NextFrame ==
    \/ Tick
    \/ LoopAdd
    \/ CliToggle
    \/ Run
    \/ LoopTop
    \/ LeanCheck
    \/ SendBegin
    \/ SendOne
    \/ UpdateLastCheck
    \/ Sleep

SpecFrame == Init /\ [][NextFrame]_vars

\* =================================================================== claims

\* the account row the last _check_new_posts call worked on is still that row
SameRow == chk.found /\ chk.id \in DOMAIN accounts /\ meta[chk.id].checked

\* _check_new_posts has just returned for the current account
Checked == pc = "sendbegin" /\ chk.found

\* C1: a pair that is in the ledger when an iteration starts is, in that
\* iteration, neither handed to the dispatcher nor dispatched nor delivered
\* on any channel, whatever its indexed timestamp and the account's last_check.
C1_Idempotence ==
    \A x \in cyc :
        /\ x \notin disp.tried
        /\ \A c \in Channels : delivered[<<x.account_did, x.post_id, c>>] = 0
        /\ pc \in {"sendbegin", "send", "update"} /\ chk.found
              => \A i \in DOMAIN new_posts : Pair(chk.did, new_posts[i].uri) # x

\* C1 witness: the feed just checked held a post that is in the ledger since
\* the iteration started and whose timestamp is after last_check
C1_Witness ==
    /\ Checked
    /\ chk.lcBefore # NULL
    /\ \E i \in DOMAIN chk.fetched :
          /\ chk.fetched[i].uri # ""
          /\ Pair(chk.did, chk.fetched[i].uri) \in cyc
          /\ chk.fetched[i].ok
          /\ IndexedAt(chk.fetched[i]) > chk.lcBefore

\* C2: each (account, post) pair is delivered on a given channel at most once.
\* (delivered counts the sends of the running iteration only; the claim bounds
\* the count over the whole run, so it bounds this one too.)
C2_AtMostOnce ==
    \A x \in DOMAIN delivered : delivered[x] <= 1

C4_Qualifying ==
    (Checked /\ chk.lcBefore # NULL)
        => Range(new_posts) =
              {p \in Range(chk.fetched) :
                  /\ p.uri # ""
                  /\ p.ok
                  /\ ledger[Pair(chk.did, p.uri)] = 0
                  /\ IndexedAt(p) > chk.lcBefore}

\* C4 witness: the feed held a post indexed exactly at last_check, which was
\* left out, next to one that was handed over
C4_Witness ==
    /\ Checked /\ chk.lcBefore # NULL
    /\ \E i \in DOMAIN chk.fetched :
          /\ chk.fetched[i].ok /\ chk.fetched[i].uri # ""
          /\ IndexedAt(chk.fetched[i]) = chk.lcBefore
          /\ chk.fetched[i] \notin Range(new_posts)
    /\ new_posts # <<>>

\* C5: every qualifying post is dispatched in the cycle that found it and is
\* delivered exactly once on each channel whose send succeeds.
C5_DispatchedExactlyOnce ==
    (pc = "update" /\ SameRow /\ acct.id = chk.id)
        => \A i \in DOMAIN new_posts :
              format_ok(new_posts[i]) =>
                 /\ Pair(chk.did, new_posts[i].uri) \in disp.tried
                 /\ \A c \in Channels :
                       delivered[<<chk.did, new_posts[i].uri, c>>] <= 1

\* C6: a dispatched post none of whose sends succeeded has no ledger row, one
\* with a successful send has exactly one; every ledger row follows a
\* successful send for its pair.
C6_LedgerAfterDispatch ==
    /\ \A x \in disp.tried :
          IF x \in disp.sentOk THEN ledger[x] = 1 ELSE ledger[x] = 0
    /\ \A x \in Pairs : ledger[x] > 0 => x \in everSent

\* C6 witness: one call dispatched a post that failed on every channel and a
\* post that got through
C6_Witness ==
    /\ pc = "update"
    /\ \E x \in disp.tried, y \in disp.tried :
          /\ x \notin disp.sentOk /\ ledger[x] = 0
          /\ y \in disp.sentOk /\ ledger[y] = 1

\* C7: a post whose dispatch failed on every enabled channel qualifies as new
\* again in the next cycle whose feed still holds it.
C7_RetryNextCycle ==
    Checked =>
        \A i \in DOMAIN chk.fetched :
            chk.fetched[i].uri \in chk.retryDue => chk.fetched[i] \in Range(new_posts)

\* C8: no two notified_posts rows share (account_did, post_id).
C8_LedgerUnique ==
    \A x \in Pairs : ledger[x] <= 1

\* C8 witness: mark_post_notified was called for a pair that already had a row
C8_Witness ==
    /\ lastMark = "existing"
    /\ \E x \in disp.sentOk : ledger[x] = 1

\* C9: while dispatch attempts for the account's qualifying posts are still
\* outstanding, the persisted last_check is the one the cycle started with.
C9_LastCheckAfterDispatch ==
    (pc \in {"sendbegin", "send"} /\ SameRow /\ k <= Len(new_posts))
        => accounts[chk.id].last_check = chk.lcBefore

\* C10: at a crash during dispatch the persisted last_check is not later than
\* the indexed timestamp of any qualifying post that is not yet notified.
C10_CrashSafe ==
    \A l \in lost : l.last_check <= l.indexed

\* C11: in the scenario of spec.md section 8 the cycles at T0 and T0+60s
\* dispatch nothing; the cycle at T0+6m hands over P2 alone and dispatches it
\* on one channel, once; a successful send leaves (alice, P2) in the ledger;
\* P1 is never dispatched and never enters the ledger.
C11_Scenario ==
    LET a1 == Pair("did:1", ScP1.uri)
        a2 == Pair("did:1", ScP2.uri)
        got == {c \in Channels : delivered[<<"did:1", ScP2.uri, c>>] > 0}
    IN  /\ ledger[a1] = 0 /\ a1 \notin disp.tried /\ a1 \notin everSent
        /\ \A c \in Channels : delivered[<<"did:1", ScP1.uri, c>>] = 0
        /\ (Checked /\ now < Scenario.cycle3) => new_posts = <<>>
        /\ now < Scenario.cycle3 => (ledger[a2] = 0 /\ a2 \notin everSent)
        /\ (Checked /\ now = Scenario.cycle3 /\ chk.lcBefore < Scenario.cycle3)
              => new_posts = <<ScP2>>
        /\ (pc = "update" /\ chk.found /\ now = Scenario.cycle3
               /\ chk.lcBefore < Scenario.cycle3)
              => /\ disp.tried = {a2}
                 /\ Cardinality(attempted(acct.prefs, env)) = 1
                 /\ \A c \in Channels : delivered[<<"did:1", ScP2.uri, c>>] <= 1
                 /\ IF a2 \in disp.sentOk
                       THEN Cardinality(got) = 1 /\ ledger[a2] = 1
                       ELSE got = {} /\ ledger[a2] = 0

\* C11 witness: the cycle at T0+6m has sent its one notification for P2
C11_Witness ==
    /\ pc = "update" /\ chk.found /\ now = Scenario.cycle3
    /\ chk.lcBefore = Scenario.cycle2
    /\ disp.tried = {Pair("did:1", ScP2.uri)}
    /\ disp.sentOk = {Pair("did:1", ScP2.uri)}
    /\ ledger[Pair("did:1", ScP2.uri)] = 1
    /\ ledger[Pair("did:1", ScP1.uri)] = 0

\* the preference rows of a list that are not of type t
OtherRows(prefs, t) == SelectSeq(prefs, LAMBDA r : r.type # t)

\* C14: an update request that supplies only one of desktop / email leaves the
\* account's rows of every other type as they were, and leaves every other
\* account's preferences as they were.
C14_PartialUpdate ==
    [][\A t \in {"desktop", "email"} :
          (op'.name = "update" /\ op'.ok /\ DOMAIN op'.supplied = {t})
             => \A i \in DOMAIN accounts :
                   /\ i \in DOMAIN accounts'
                   /\ i # op'.id => accounts'[i].prefs = accounts[i].prefs
                   /\ i = op'.id => OtherRows(accounts'[i].prefs, t)
                                        = OtherRows(accounts[i].prefs, t)]_vars

\* C15: no two monitored accounts share a did and no two share a handle (add
\* rejects a profile whose did or handle is already stored).
C15_UniqueDidAndHandle ==
    \A i \in DOMAIN accounts : \A j \in DOMAIN accounts :
        i # j => /\ accounts[i].did # accounts[j].did
                 /\ accounts[i].handle # accounts[j].handle

C17_OnePrefPerType ==
    \A i \in DOMAIN accounts :
        \A m \in DOMAIN accounts[i].prefs : \A n \in DOMAIN accounts[i].prefs :
            accounts[i].prefs[m].type = accounts[i].prefs[n].type => m = n

\* C12: removing an account deletes its row together with its preferences and
\* changes no other account; a poll cycle that starts after the removal neither
\* fetches nor dispatches for the removed account.
RemoveStep ==
    /\ op'.name = "remove"
    /\ op'.ok
    /\ op.name # "remove" \/ op.id # op'.id

C12_RemoveExcludes ==
    /\ [][RemoveStep =>
            /\ op'.id \in DOMAIN accounts
            /\ accounts' = [i \in DOMAIN accounts \ {op'.id} |-> accounts[i]]]_vars
    /\ [](op.name = "remove" /\ op.ok /\ ~op.during /\ InCycle =>
            /\ \A i \in DOMAIN queue : queue[i] # op.id
            /\ chk.id # op.id
            /\ acct.id # op.id)

\* a cycle that started after a removal is processing a remaining account
C12_Witness ==
    /\ op.name = "remove" /\ op.ok /\ ~op.during
    /\ pc = "send"
    /\ acct.id \in DOMAIN accounts


\* C13: toggling an active account makes its active flag false and changes
\* nothing else (row, preferences, last-check, ledger); a poll cycle takes up
\* only accounts whose active flag is true when it starts.
ToggleStep ==
    /\ op'.name = "toggle"
    /\ pc' = pc
    /\ op' # op \/ accounts' # accounts

C13_ToggleExcludes ==
    /\ [][ToggleStep /\ accounts[op'.id].is_active =>
            /\ accounts' = [accounts EXCEPT ![op'.id].is_active = FALSE]
            /\ ledger' = ledger]_vars
    /\ [][pc = "top" /\ pc' = "check" =>
            \A n \in DOMAIN queue' : accounts[queue'[n]].is_active]_vars


\* C18: an error raised while one account is processed (fetch, filtering,
\* dispatch or the last-check commit) is caught and the other accounts loaded
\* for the same iteration are still processed: the iteration reaches its
\* sleep only when no loaded account is left unprocessed.
C18_ErrorIsolation == pc = "sleep" => queue = <<>>


\* C19: no error of the feed client, the storage or a channel ends the poll
\* loop: run() returns in one way only, by finding the running flag cleared at
\* the top of the loop, and whenever run() is not executing, stop() has been
\* called.
C19_OnlyStopEnds ==
    /\ [][pc # "stopped" /\ pc' = "stopped" => pc = "top" /\ ~running]_vars
    /\ [](pc \in {"stopped", "closed"} => ~running)

\* the last-check commit of one account failed, the error was caught and the
\* loop is on its way to the next iteration
C19_Witness == pc = "sleep" /\ queue # <<>> /\ running


\* C20: cooperative stop: calling stop() only clears the flag, so the check
\* in flight goes on to its end; once the cleared flag is seen at the top of
\* the loop no new iteration is started; and run() eventually returns.
C20_CooperativeStop ==
    /\ [][running /\ ~running' => pc' = pc /\ queue' = queue /\ new_posts' = new_posts]_vars
    /\ [][~running /\ pc = "top" => pc' \in {"top", "stopped"}]_vars
    /\ (~running /\ pc # "stopped") ~> (pc = "stopped")


\* C25: when the row of the account being processed was removed by a request
\* in the meantime, the loop raises nothing, sends nothing and writes nothing
\* for it (no last-check, no ledger row, no new account row), and goes on to
\* the next account loaded for the iteration.
C25_SilentSkip ==
    [][/\ InCycle
       /\ Head(queue) \notin DOMAIN accounts
       /\ pc' # pc \/ k' # k
       /\ pc' # "closed"
       => /\ accounts' = accounts
          /\ ledger' = ledger
          /\ everSent' = everSent
          /\ queue' # queue =>
                pc' = IF Tail(queue) = <<>> THEN "sleep" ELSE "check"]_vars


\* C21: a feed or profile request that fails transiently is retried; a request
\* that succeeds on one of its first 5 attempts (all earlier ones having failed
\* transiently) returns that result; no request is attempted more than 5 times.
C21_BoundedRetry ==
    call.fn \in {"get_recent_posts", "add_account"} =>
        /\ call.attempts <= 5
        /\ (\E i \in DOMAIN call.answers :
                /\ i <= 5
                /\ call.answers[i] = "ok"
                /\ \A j \in 1..(i - 1) : call.answers[j] = "transient")
              => call.result # "error"

C27_NoMissedPost ==
    pc = "sendbegin" /\ chk.found /\ call.fn = "get_recent_posts" /\ call.result = "ok" =>
        \A i \in DOMAIN call.posts :
            /\ call.posts[i].ok
            /\ format_ok(call.posts[i])
            /\ IndexedAt(call.posts[i]) > Scenario.T0
            /\ ~existing_notification(ledger, chk.did, call.posts[i].uri)
            => \E n \in DOMAIN new_posts : new_posts[n] = call.posts[i]


\* C28: the add-account route (the service being authenticated) answers an
\* add that stored the account with status 201, and an add that ended in an
\* error with status 400 and a body carrying an 'error' field, having stored
\* nothing.
C28_AddRouteStatus ==
    call.fn = "route_add" /\ call.authenticated =>
        IF call.added THEN call.status = 201
        ELSE call.status = 400 /\ call.error


\* C24: channel independence: for one post, every enabled channel whose own
\* delivery works does deliver, whatever the other channels did (failed or
\* raised) and whichever comes first in the account's preferences; the
\* dispatch ends with exactly those sends.
C24_ChannelIndependence ==
    call.fn = "dispatch" =>
        Range(call.sent) = {c \in attempted(call.prefs, env) : call.outcome[c] = "sent"}

\* email comes first and raises; desktop is still delivered
C24_Witness ==
    /\ call.fn = "dispatch"
    /\ call.prefs = <<Pref("email", TRUE), Pref("desktop", TRUE)>>
    /\ call.outcome["email"] = "raised"
    /\ call.sent = <<"desktop">>


\* C29: the stop flag is honoured between accounts: once stop() has been
\* called while an account is being processed, that account's processing
\* completes and no further account of the iteration is taken up.
C29_StopBetweenAccounts ==
    [][~running /\ pc = "update" => pc' \in {"update", "sleep", "closed"}]_vars


\* sub holds elements of full in the order full has them
OrderKept(sub, full) ==
    \E f \in [DOMAIN sub -> DOMAIN full] :
        /\ \A n \in DOMAIN sub : full[f[n]] = sub[n]
        /\ \A m \in DOMAIN sub : \A n \in DOMAIN sub : m < n => f[m] < f[n]

\* C26: the posts handed to the dispatcher keep the relative order the feed
\* had them in, and they are dispatched from the first to the last: what has
\* been dispatched so far is always an initial stretch of that list.
C26_DispatchOrder ==
    /\ Checked => OrderKept(new_posts, chk.fetched)
    /\ pc = "send" =>
          {x.post_id : x \in disp.tried} \subseteq {new_posts[j].uri : j \in 1..(k - 1)}

\* two different posts of one feed were handed over
C26_Witness ==
    /\ Checked
    /\ Len(new_posts) = 2
    /\ new_posts[1].uri # new_posts[2].uri

\* C30: a post with a missing uri or an unparsable timestamp is never handed
\* to the dispatcher, a post with a malformed uri is never sent and never
\* gets a ledger row; the well-formed posts of the same feed are filtered as
\* usual and every one of them that qualifies is dispatched in that cycle.
C30_MalformedSkipped ==
    /\ \A x \in Pairs :
          UriParts(x.post_id) # 5 \/ (\E it \in Items : it.uri = x.post_id /\ ~it.ok)
             => /\ ledger[x] = 0
                /\ x \notin disp.tried
                /\ \A c \in Channels : delivered[<<x.account_did, x.post_id, c>>] = 0
    /\ pc \in {"sendbegin", "send", "update"} =>
          \A i \in DOMAIN new_posts : new_posts[i].ok /\ new_posts[i].uri # ""
    /\ Checked /\ chk.lcBefore # NULL =>
          \A i \in DOMAIN chk.fetched :
              /\ chk.fetched[i].uri # ""
              /\ chk.fetched[i].ok
              /\ ledger[Pair(chk.did, chk.fetched[i].uri)] = 0
              /\ IndexedAt(chk.fetched[i]) > chk.lcBefore
              => chk.fetched[i] \in Range(new_posts)
    /\ pc = "update" /\ SameRow /\ acct.id = chk.id =>
          \A i \in DOMAIN new_posts :
              format_ok(new_posts[i]) => Pair(chk.did, new_posts[i].uri) \in disp.tried

\* a post with a malformed uri was passed over and another post of the same
\* feed was dispatched
C30_Witness ==
    /\ pc = "update"
    /\ \E i \in DOMAIN new_posts : ~format_ok(new_posts[i])
    /\ disp.tried # {}

\* C31: on every channel the delivered message is the post body when it has at
\* most 200 characters, else its first 200 characters and an ellipsis, and the
\* title is "New post from " and the display name, or the handle when the
\* display name is empty
C31_NotificationText ==
    call.fn = "notify" =>
        LET text == [title   |-> NewPostFrom \o (IF call.display_name # <<>>
                                                 THEN call.display_name ELSE call.handle),
                     message |-> IF Len(call.body) <= MessageLimit THEN call.body
                                 ELSE SubSeq(call.body, 1, MessageLimit) \o Ellipsis]
        IN  call.desktop = text /\ call.email = text

\* C32: with an incomplete Mailgun configuration no email request is made, the
\* email channel does not count as sent, the other enabled channels are called
\* and count as usual, and a post whose only enabled channel is email gets no
\* ledger row
C32_EmailSkipped ==
    call.fn = "email_dispatch" /\ call.config # MailgunKeys =>
        /\ ~call.requested
        /\ "email" \notin Range(call.sent)
        /\ Range(call.sent) = {c \in attempted(call.prefs, env) \ {"email"} : call.out[c]}
        /\ (\A i \in DOMAIN call.prefs :
                call.prefs[i].enabled => call.prefs[i].type = "email") => ~call.marked

\* an incomplete configuration, email and desktop both enabled, the email
\* delivery would have worked, and the desktop channel was sent
C32_Witness ==
    /\ call.fn = "email_dispatch"
    /\ call.config # MailgunKeys /\ call.config # {}
    /\ \A i \in DOMAIN call.prefs : call.prefs[i].enabled
    /\ call.out["email"]
    /\ call.sent = <<"desktop">>
    /\ call.marked

\* C33: with DOCKER_CONTAINER set no native desktop notification is sent; an
\* account with desktop enabled gets the browser broadcast instead, an account
\* with desktop disabled does not; the post gets its ledger row only when the
\* broadcast or another enabled channel succeeded
C33_Headless ==
    call.fn = "email_dispatch" /\ env.docker =>
        LET desktop == \E i \in DOMAIN call.prefs :
                          call.prefs[i].type = "desktop" /\ call.prefs[i].enabled
            email   == \E i \in DOMAIN call.prefs :
                          call.prefs[i].type = "email" /\ call.prefs[i].enabled
        IN  /\ "desktop" \notin Range(call.sent)
            /\ desktop => ("browser" \in Range(call.sent) <=> call.out["browser"])
            /\ ~desktop => "browser" \notin Range(call.sent)
            /\ call.marked =>
                  \/ desktop /\ call.out["browser"]
                  \/ email /\ call.requested /\ call.out["email"]

\* in Docker, desktop enabled and email not: the native delivery would have
\* worked, the broadcast was made instead and the post got its ledger row
C33_Witness ==
    /\ call.fn = "email_dispatch"
    /\ env.docker
    /\ \A i \in DOMAIN call.prefs : call.prefs[i].enabled <=> call.prefs[i].type = "desktop"
    /\ call.out["desktop"]
    /\ call.sent = <<"browser">>
    /\ call.marked

C35_UpdateMerges ==
    [][op'.name = "update" /\ (op' # op \/ accounts' # accounts) =>
          IF op'.ok
          THEN \A t \in DOMAIN op'.supplied :
                  LET rows == {n \in DOMAIN accounts'[op'.id].prefs :
                                  accounts'[op'.id].prefs[n].type = t}
                  IN  /\ Cardinality(rows) = 1
                      /\ \A n \in rows :
                            accounts'[op'.id].prefs[n].enabled = op'.supplied[t]
          ELSE op'.id = 0 /\ accounts' = accounts]_vars

\* C36: the last_check of an account never goes from a value back to null and
\* never decreases, whatever is done next to the poll cycles
C36_LastCheckMonotone ==
    [][\A i \in DOMAIN accounts \cap DOMAIN accounts' :
          accounts[i].last_check # NULL =>
              /\ accounts'[i].last_check # NULL
              /\ accounts'[i].last_check >= accounts[i].last_check]_vars

\* a cycle has moved an account's last_check forward from an earlier value
C36_Witness ==
    /\ Checked
    /\ chk.id \in DOMAIN accounts
    /\ chk.lcBefore # NULL
    /\ accounts[chk.id].last_check > chk.lcBefore

\* C37: a cycle whose feed request failed, for an account with a last_check,
\* hands over nothing, sends nothing, adds no ledger row and still sets
\* last_check to the current time; no later cycle hands over a post that was
\* indexed at or before the instant of the failed fetch
C37_FailedFetchAdvances ==
    /\ call.fn = "get_recent_posts" /\ call.result = "error" /\ Checked
          /\ chk.id = call.id /\ chk.lcBefore # NULL =>
            /\ new_posts = <<>>
            /\ disp = NoDispatch
            /\ {x \in Pairs : ledger[x] > 0} = cyc
            /\ accounts[chk.id].last_check = now
    /\ call.fn = "get_recent_posts" /\ call.failedAt # NULL /\ Checked =>
            \A n \in DOMAIN new_posts : IndexedAt(new_posts[n]) > call.failedAt

\* the fetch at T0+60s failed; the next cycle fetched a feed holding the post
\* indexed at T0+60s, which has no ledger row, and handed over the newer post only
C37_Witness ==
    /\ Checked
    /\ call.fn = "get_recent_posts" /\ call.result = "ok"
    /\ call.failedAt = IndexedAt(ScLate)
    /\ call.posts = <<ScP2, ScLate>>
    /\ ~existing_notification(ledger, chk.did, ScLate.uri)
    /\ new_posts = <<ScP2>>

\* C38: mark_post_notified for a pair with no ledger row inserts one row and
\* returns True; for a pair with a row it returns False and leaves the ledger
\* as it is; when two contexts call it for the same pair at the same time the
\* ledger ends with one row for the pair, at most one call returns True and
\* neither call raises
C38_MarkRaceSafe ==
    /\ [](\A c \in Contexts :
            /\ marking[c].pc # "idle" => ledger[marking[c].pair] <= 1
            /\ marking[c].pc = "done" =>
                  /\ marking[c].result \in {"True", "False"}
                  /\ ledger[marking[c].pair] = 1
                  /\ \A d \in Contexts \ {c} :
                        marking[d].pc = "done" /\ marking[d].pair = marking[c].pair
                            => ~(marking[c].result = "True" /\ marking[d].result = "True"))
    /\ [][\A c \in Contexts :
            marking[c].pc = "queried" /\ marking'[c].pc = "done" =>
                IF ledger[marking[c].pair] = 0
                THEN /\ marking'[c].result = "True"
                     /\ ledger' = [ledger EXCEPT ![marking[c].pair] = 1]
                ELSE /\ marking'[c].result = "False"
                     /\ ledger' = ledger]_vars

\* both contexts queried the same pair before either had inserted; both calls
\* have returned, one with True and one with False, and the pair has one row
C38_Witness ==
    /\ \A c \in Contexts : marking[c].pc = "done" /\ ~marking[c].existing
    /\ marking["loop"].pair = marking["other"].pair
    /\ marking["loop"].result = "True"
    /\ marking["other"].result = "False"
    /\ ledger[marking["loop"].pair] = 1

\* C39: a poll cycle takes up only accounts that are active when it starts;
\* its steps write nothing but the last_check of the account being processed
\* and new ledger rows: no account row appears or goes, no did, handle, active
\* flag or preference changes, no other account is written, and no ledger row
\* is removed
C39_CycleFrame ==
    /\ [][pc = "top" /\ pc' = "check" =>
            /\ accounts' = accounts
            /\ ledger' = ledger
            /\ \A n \in DOMAIN queue' :
                  queue'[n] \in DOMAIN accounts /\ accounts[queue'[n]].is_active]_vars
    /\ [][CycleStep =>
            /\ DOMAIN accounts' = DOMAIN accounts
            /\ \A i \in DOMAIN accounts :
                  /\ accounts'[i] = [accounts[i] EXCEPT !.last_check = accounts'[i].last_check]
                  /\ accounts'[i] # accounts[i] => i = Head(queue)
            /\ \A x \in Pairs : ledger'[x] >= ledger[x]]_vars

\* an inactive account is stored and left out of the running cycle, which has
\* written the last_check of an active account and a ledger row
C39_Witness ==
    /\ pc = "update"
    /\ \E j \in DOMAIN accounts :
          /\ ~accounts[j].is_active
          /\ \A n \in DOMAIN queue : queue[n] # j
          /\ ~op.during
    /\ accounts[Head(queue)].last_check > 0
    /\ \E x \in Pairs : ledger[x] > 0 /\ x \notin cyc

\* C40: no step removes a ledger row; the rows of a removed account stay, so
\* a pair that has its row when an iteration starts is not handed over or
\* delivered in it, also when its account was removed and added again in
\* between
C40_LedgerNeverShrinks ==
    /\ [][\A x \in Pairs : ledger'[x] >= ledger[x]]_vars
    /\ [](Checked /\ chk.first =>
            \A n \in DOMAIN new_posts :
                /\ Pair(chk.did, new_posts[n].uri) \notin cyc
                /\ \A c \in Channels : delivered[<<chk.did, new_posts[n].uri, c>>] = 0)

\* the first check of an account that was added again after its removal: the
\* feed holds a post newer than last_check whose ledger row dates from before
\* the removal, and the post is not handed over
C40_Witness ==
    /\ Checked /\ chk.first
    /\ chk.lcBefore # NULL
    /\ \E i \in DOMAIN chk.fetched :
          /\ chk.fetched[i].ok
          /\ newer(chk.fetched[i], chk.lcBefore)
          /\ Pair(chk.did, chk.fetched[i].uri) \in cyc
          /\ \A n \in DOMAIN new_posts : new_posts[n] # chk.fetched[i]

==========================================================================
